---- MODULE Spec2Model ----
(***************************************************************************)
(* Event-driven ingestion pipeline of src/python/functions/function_app.py *)
(* (Azure Functions triggered by Event Grid) as a state machine.           *)
(*                                                                         *)
(* The hosting environment delivers Event Grid events to the three entry   *)
(* points process_sms_received, process_chat_event and                     *)
(* process_recording_event.  Several invocations may run at once; each     *)
(* keeps its own locals and they share only the Cosmos DB store.  An       *)
(* invocation is split at its I/O boundaries:                              *)
(*   Deliver  - the host starts an invocation: field extraction, logging,  *)
(*              (chat) dispatch on event_type, the COSMOS_ENDPOINT test,   *)
(*              get_cosmos_client() and the lazy database/container proxies *)
(*   Commit   - container.upsert_item(...) and the return or raise the     *)
(*              host sees                                                  *)
(*                                                                         *)
(* SpecHealth is the timer-triggered health_check of the same file, and    *)
(* SpecRest the REST facade of src/python/app.py, each request served in   *)
(* one step.  SpecLazy runs the handle getters of app.py statement by      *)
(* statement in several threads.                                           *)
(***************************************************************************)
EXTENDS Integers, Sequences, FiniteSets, Bags, TLC

VARIABLES
    COSMOS_ENDPOINT,  \* module global read from the environment at import
    store,            \* the documents held by the Cosmos DB containers
    inv,              \* the invocations in flight (a bag)
    outcome,          \* the invocation that finished last, as the host sees it
    started,          \* number of invocations the host has started so far
    last,             \* history: per store slot, the upsert committed last
    committed,        \* history: how often each (handler, event) was committed
    healthLog,        \* the snapshots health_check has written to the log
    ticks,            \* history: one entry per run of health_check
    ACS_ENDPOINT,     \* app.py: module global read from the environment
    _credential,      \* app.py: lazily created credential, None until then
    _identity_client, \* app.py: lazily created identity client
    _sms_client,      \* app.py: lazily created SMS client
    response,         \* what the REST facade answered to the last request
    served,           \* number of REST requests served so far
    threads,          \* app.py: per thread, where it is in a handle getter
    calls,            \* number of getter calls started so far
    built,            \* history: per handle, how many instances were made
    handed            \* history: the (getter, instance) pairs returned

\* the variables of the timer-triggered health reporter
timerVars == <<healthLog, ticks>>

\* the variables of the event handlers' invocations and of the store
ingestVars == <<store, inv, outcome, started, last, committed>>

\* the variables of the REST facade
restVars == <<ACS_ENDPOINT, _credential, _identity_client, _sms_client,
              response, served>>

\* the variables of the threads running the handle getters of app.py
lazyVars == <<threads, calls, built, handed>>

\* what the Event Grid handlers never touch
elsewhere == <<timerVars, restVars, lazyVars>>

vars == <<COSMOS_ENDPOINT, store, inv, outcome, started, last, committed,
          healthLog, ticks, ACS_ENDPOINT, _credential, _identity_client,
          _sms_client, response, served, threads, calls, built, handed>>

-----------------------------------------------------------------------------
(* Bounds of the model *)

MaxWorkers == 2      \* invocations that may be in flight at once
MaxDeliveries == 2   \* invocations the host starts in one behaviour
MaxClock == 1        \* datetime.utcnow() returns one of 0..MaxClock
MaxTicks == 2        \* runs of the health_check timer in one behaviour
MaxRequests == 2     \* REST requests served in one behaviour
MaxThreads == 2      \* threads of the REST process
MaxCalls == 3        \* calls of the handle getters in one behaviour

\* the values datetime.utcnow() may return (the wall clock is an input)
utcnow == 0..MaxClock

-----------------------------------------------------------------------------
(* Values *)

None == "<None>"                   \* Python None / a missing JSON member
Endpoint == "https://cosmos"       \* a configured COSMOS_DB_ENDPOINT

SMSReceived == "Microsoft.Communication.SMSReceived"
ChatMessageReceived == "Microsoft.Communication.ChatMessageReceived"
ChatThreadCreated == "Microsoft.Communication.ChatThreadCreated"
ChatParticipantAdded == "Microsoft.Communication.ChatParticipantAdded"
RecordingFileStatusUpdated == "Microsoft.Communication.RecordingFileStatusUpdated"
OtherType == "Microsoft.Communication.SomethingNew"   \* a kind not handled

KnownTypes == {SMSReceived, ChatMessageReceived, ChatThreadCreated,
               ChatParticipantAdded, RecordingFileStatusUpdated}

\* the python exceptions the handlers can meet
TypeError == "TypeError"                   \* None[:20]
CredentialError == "CredentialUnavailableError"  \* get_cosmos_client()
CosmosHttpError == "CosmosHttpResponseError"     \* upsert_item()

\* dict.get(key): the member, or None when it is absent
Get(d, f) == IF f \in DOMAIN d THEN d[f] ELSE None

\* dict.get(key, default)
GetOr(d, f, default) == IF f \in DOMAIN d THEN d[f] ELSE default

\* a dict without some of its members
Without(d, fs) == [f \in (DOMAIN d) \ fs |-> d[f]]

EmptyDict == [f \in {} |-> None]

-----------------------------------------------------------------------------
(* The events the host may deliver.  An event is what func.EventGridEvent  *)
(* exposes to the code: id, event_type and get_json() (the data member).   *)
(* A member the envelope lacks reads as None.                              *)

\* <<event id, partition key member, body>> of the well-formed events: one
\* event, the same event with another body, with another key, with another id
Samples == {<<"e1", "k1", "a">>, <<"e1", "k1", "b">>,
            <<"e1", "k2", "a">>, <<"e2", "k1", "a">>}

Event(i, t, d) == [id |-> i, event_type |-> t, data |-> d]

SmsData(k, m) ==
    [messageId |-> k, from |-> "+1", to |-> "+2", message |-> m,
     receivedTimestamp |-> "2024-01-01T00:00:00Z"]

ChatMessageData(k, m) ==
    [threadId |-> k, senderId |-> "u1", messageBody |-> m, transactionId |-> "tx"]

ThreadCreatedData(k) == [threadId |-> k, createdBy |-> "u1"]

ParticipantAddedData(k, ps) == [threadId |-> k, participantsAdded |-> ps]

Chunk(n) == [contentLocation |-> <<"content", n>>, deleteLocation |-> <<"delete", n>>]

RecordingData(k, cs) ==
    [serverCallId |-> k, recordingStorageInfo |-> [recordingChunks |-> cs]]

ChunksOf(m) == IF m = "a" THEN <<>> ELSE <<Chunk(1), Chunk(2)>>

SmsEvents ==
    {Event(x[1], SMSReceived, SmsData(x[2], x[3])) : x \in Samples}
    \cup {Event("e1", SMSReceived, EmptyDict),
          Event("e1", OtherType, SmsData("k1", "a")),
          Event("e1", None, SmsData("k1", "a")),
          Event(None, SMSReceived, SmsData("k1", "a"))}

ChatEvents ==
    {Event(x[1], ChatMessageReceived, ChatMessageData(x[2], x[3])) : x \in Samples}
    \cup {Event("e1", ChatMessageReceived, Without(ChatMessageData("k1", "a"), fs)) :
            fs \in {{"threadId"}, {"senderId"}, {"messageBody", "transactionId"}}}
    \cup {Event("e1", ChatThreadCreated, Without(ThreadCreatedData("k1"), fs)) :
            fs \in {{}, {"threadId"}, {"createdBy"}}}
    \cup {Event("e1", ChatParticipantAdded, d) :
            d \in {ParticipantAddedData("k1", <<[id |-> "u1"], EmptyDict>>),
                   Without(ParticipantAddedData("k1", <<>>),
                           {"threadId", "participantsAdded"}),
                   Without(ParticipantAddedData("k1", <<[id |-> "u1"]>>), {"threadId"})}}
    \cup {Event("e1", OtherType, ChatMessageData("k1", "a")),
          Event("e1", None, ChatMessageData("k1", "a")),
          Event(None, ChatMessageReceived, ChatMessageData("k1", "a"))}

RecordingEvents ==
    {Event(x[1], RecordingFileStatusUpdated, RecordingData(x[2], ChunksOf(x[3]))) :
        x \in Samples}
    \cup {Event("e1", RecordingFileStatusUpdated, d) :
            d \in {EmptyDict,
                   [serverCallId |-> "k1", recordingStorageInfo |-> EmptyDict],
                   RecordingData("k1", <<EmptyDict>>)}}
    \cup {Event("e1", OtherType, RecordingData("k1", <<Chunk(1)>>)),
          Event("e1", None, RecordingData("k1", <<Chunk(1)>>)),
          Event(None, RecordingFileStatusUpdated, RecordingData("k1", <<Chunk(1)>>))}

-----------------------------------------------------------------------------
(* The store: Cosmos DB containers.  A document is addressed inside its    *)
(* container by (partition key, id); the partition key is read from the    *)
(* member the code marks "# Partition key".                                *)

CallLogs == "call-logs"
ChatHistory == "chat-history"

PartitionKeyOf(container, item) ==
    IF container = CallLogs THEN item.callId ELSE item.threadId

Doc(container, item) == [container |-> container, item |-> item]

SameSlot(d, container, item) ==
    /\ d.container = container
    /\ d.item.id = item.id
    /\ PartitionKeyOf(d.container, d.item) = PartitionKeyOf(container, item)

\* upsert_item changed into an insert that never replaces
create_item(st, container, item) == st \cup {Doc(container, item)}

\* upsert_item changed into an insert that keeps the document already there
insert_if_absent(st, container, item) ==
    IF \E d \in st : SameSlot(d, container, item)
    THEN st ELSE st \cup {Doc(container, item)}

\* upsert_item matching on the partition key alone: it replaces every
\* document of the container's partition
upsert_by_partition(st, container, item) ==
    {d \in st : ~(d.container = container
                  /\ PartitionKeyOf(d.container, d.item)
                       = PartitionKeyOf(container, item))}
    \cup {Doc(container, item)}

\* container.upsert_item(item): replace the document of the same
\* (partition key, id) if there is one, insert otherwise
upsert_item(st, container, item) ==
    {d \in st : ~SameSlot(d, container, item)} \cup {Doc(container, item)}

\* the outcomes upsert_item can have: it commits, or it raises (the store is
\* unreachable or refuses the request; a document whose id is not a string
\* is always refused)
UpsertOutcomes(item) ==
    IF item.id = None THEN {CosmosHttpError} ELSE {None, CosmosHttpError}

\* the outcomes of get_cosmos_client(): DefaultAzureCredential() and
\* CosmosClient(COSMOS_ENDPOINT, credential) succeed or raise
get_cosmos_client == {None, CredentialError}

\* the endpoint test taken as "is not None": the empty string passes
IsNotNone(v) == v # None

\* `if COSMOS_ENDPOINT:` - None and the empty string are falsy
Truthy(v) == v \notin {None, ""}

-----------------------------------------------------------------------------
(* The documents the handlers build *)

\* sms_data with the sender and the recipient exchanged
sms_data_swapped(event, t) ==
    [id |-> event.id,
     type |-> "sms_received",
     messageId |-> Get(event.data, "messageId"),
     from |-> Get(event.data, "to"),
     to |-> Get(event.data, "from"),
     message |-> Get(event.data, "message"),
     receivedAt |-> Get(event.data, "receivedTimestamp"),
     processedAt |-> t]

\* process_sms_received: sms_data, built before the store is touched
sms_data(event, t) ==
    [id |-> event.id,
     type |-> "sms_received",
     messageId |-> Get(event.data, "messageId"),
     from |-> Get(event.data, "from"),
     to |-> Get(event.data, "to"),
     message |-> Get(event.data, "message"),
     receivedAt |-> Get(event.data, "receivedTimestamp"),
     processedAt |-> t]

\* SmsItem with the partition key taken from the event id
SmsItemKeyedById(event, t) ==
    [id |-> event.id,
     callId |-> event.id,
     type |-> "sms",
     direction |-> "inbound",
     data |-> sms_data(event, t)]

\* process_sms_received: the document passed to upsert_item
SmsItem(event, t) ==
    [id |-> event.id,
     callId |-> Get(event.data, "messageId"),
     type |-> "sms",
     direction |-> "inbound",
     data |-> sms_data(event, t)]

\* process_chat_message: the document passed to upsert_item
ChatItem(event, t) ==
    [id |-> event.id,
     threadId |-> Get(event.data, "threadId"),
     senderId |-> Get(event.data, "senderId"),
     message |-> Get(event.data, "messageBody"),
     timestamp |-> Get(event.data, "transactionId"),
     processedAt |-> t]

\* process_recording_event: recording_chunks
recording_chunks(event) ==
    GetOr(GetOr(event.data, "recordingStorageInfo", EmptyDict), "recordingChunks", <<>>)

\* RecordingItem leaving the chunks member out when there are no chunks
RecordingItemOmitEmpty(event, t) ==
    IF recording_chunks(event) = <<>>
    THEN [id |-> event.id,
          callId |-> Get(event.data, "serverCallId"),
          type |-> "recording",
          status |-> "available",
          processedAt |-> t]
    ELSE [id |-> event.id,
          callId |-> Get(event.data, "serverCallId"),
          type |-> "recording",
          status |-> "available",
          chunks |-> recording_chunks(event),
          processedAt |-> t]

\* process_recording_event: the document passed to upsert_item
RecordingItem(event, t) ==
    [id |-> event.id,
     callId |-> Get(event.data, "serverCallId"),
     type |-> "recording",
     status |-> "available",
     chunks |-> recording_chunks(event),
     processedAt |-> t]

-----------------------------------------------------------------------------
(* The handlers up to the point where they touch the store.  Each gives    *)
(* the exception the code raises there, or None.                           *)

\* x[:20] raises TypeError when x is None
SliceRaises(x) == x = None

\* process_chat_message, up to `if COSMOS_ENDPOINT:`
process_chat_message(data) ==
    IF SliceRaises(Get(data, "threadId")) \/ SliceRaises(Get(data, "senderId"))
    THEN TypeError ELSE None

process_thread_created(data) ==
    IF SliceRaises(Get(data, "threadId")) \/ SliceRaises(Get(data, "createdBy"))
    THEN TypeError ELSE None

\* the loop body slices thread_id once per participant; p.get('id', '') is a string
process_participant_added(data) ==
    IF /\ Len(GetOr(data, "participantsAdded", <<>>)) > 0
       /\ SliceRaises(Get(data, "threadId"))
    THEN TypeError ELSE None

\* ChatDispatch with the message branch falling through to the next one
ChatDispatchFallthrough(event_type) ==
    IF event_type = ChatMessageReceived
    THEN <<"process_chat_message", "process_thread_created">>
    ELSE IF event_type = ChatThreadCreated THEN <<"process_thread_created">>
    ELSE IF event_type = ChatParticipantAdded THEN <<"process_participant_added">>
    ELSE <<>>

\* process_chat_event: the if / elif chain on event_type; the handlers it
\* calls, in order (none for a type it does not know: a warning is logged)
ChatDispatch(event_type) ==
    IF event_type = ChatMessageReceived THEN <<"process_chat_message">>
    ELSE IF event_type = ChatThreadCreated THEN <<"process_thread_created">>
    ELSE IF event_type = ChatParticipantAdded THEN <<"process_participant_added">>
    ELSE <<>>

HandlerRaises(h, data) ==
    CASE h = "process_chat_message" -> process_chat_message(data)
      [] h = "process_thread_created" -> process_thread_created(data)
      [] h = "process_participant_added" -> process_participant_added(data)
      [] OTHER -> None

\* the handlers an entry point runs for an event
Called(fn, event) ==
    IF fn = "process_chat_event" THEN ChatDispatch(event.event_type) ELSE <<fn>>

\* the first exception raised by the handlers run for an event, or None
Raised(fn, event) ==
    LET hs == Called(fn, event)
        bad == {i \in 1..Len(hs) : HandlerRaises(hs[i], event.data) # None}
    IN IF bad = {} THEN None
       ELSE HandlerRaises(hs[CHOOSE i \in bad : \A j \in bad : i <= j], event.data)

\* PersistingHandlers with a store section added to the thread handler
PersistingHandlersAndThread ==
    {"process_sms_received", "process_chat_message", "process_recording_event",
     "process_thread_created"}

\* the handlers that end with an upsert
PersistingHandlers ==
    {"process_sms_received", "process_chat_message", "process_recording_event"}

\* the handler of this invocation that writes to the store, or None
Persister(hs) ==
    IF \E i \in 1..Len(hs) : hs[i] \in PersistingHandlers
    THEN hs[CHOOSE i \in 1..Len(hs) : hs[i] \in PersistingHandlers]
    ELSE None

\* get_container_client(...): the container each handler writes to
ContainerOf(h) == IF h = "process_chat_message" THEN ChatHistory ELSE CallLogs

\* the document handler h upserts for an event; t is its processedAt
ItemOf(h, event, t) ==
    CASE h = "process_sms_received" -> SmsItem(event, t)
      [] h = "process_chat_message" -> ChatItem(event, t)
      [] h = "process_recording_event" -> RecordingItem(event, t)

\* Reraise without the `raise`: the error is logged and swallowed
LogAndSwallow(e) == [result |-> "ok", errlog |-> e]

\* Reraise raising another error in place of the one caught
RaiseAnother(e) == [result |-> "RuntimeError", errlog |-> e]

\* `except Exception as e: logger.exception(...); raise` of the entry points:
\* what the invocation ends with when e was raised inside the try block
Reraise(e) == [result |-> e, errlog |-> e]

-----------------------------------------------------------------------------
(* Invocations *)

\* the partition key member of the payload, per persisting handler
KeyField(h) ==
    CASE h = "process_sms_received" -> "messageId"
      [] h = "process_chat_message" -> "threadId"
      [] h = "process_recording_event" -> "serverCallId"

\* the store slot an upsert of handler h for an event addresses
SlotOf(h, event) == <<ContainerOf(h), Get(event.data, KeyField(h)), event.id>>

\* an exception of the REST facade: its class, the status_code attribute
\* (HttpResponseError only; 0 stands for None, no response was received) and
\* its message
Exc(class, status_code, message) ==
    [class |-> class, status_code |-> status_code, message |-> message]

\* no exception
NoExc == Exc(None, 0, "")

\* before the first request
NoResponse ==
    [endpoint |-> None, data |-> EmptyDict, status |-> 0, body |-> EmptyDict,
     raised |-> NoExc, escaped |-> NoExc, sdk |-> <<>>, outcomes |-> <<>>,
     obtained |-> <<>>]

\* the threads that serve requests in the REST process
Threads == 1..MaxThreads

\* the three lazily created handles
Handles == {"_credential", "_identity_client", "_sms_client"}

\* a thread that is in none of the getters
Outside == [pc |-> "idle", fn |-> None, credential |-> None, result |-> None]

\* app.py after import: no handle has been created
RestStart ==
    /\ _credential = None
    /\ _identity_client = None
    /\ _sms_client = None
    /\ response = NoResponse
    /\ served = 0
    /\ threads = [th \in Threads |-> Outside]
    /\ calls = 0
    /\ built = [kind \in Handles |-> 0]
    /\ handed = {}

Idle ==
    [pc |-> "idle", fn |-> None, event |-> Event(None, None, EmptyDict),
     called |-> <<>>, t |-> -1, raised |-> None, result |-> None,
     errlog |-> None, connects |-> 0, upserts |-> 0, written |-> {},
     raced |-> FALSE, beside |-> FALSE]

Init ==
    /\ COSMOS_ENDPOINT \in {None, Endpoint}
    /\ store = {}
    /\ inv = EmptyBag
    /\ outcome = Idle
    /\ started = 0
    /\ last = {}
    /\ committed = [x \in {} |-> 0]
    /\ healthLog = <<>>
    /\ ticks = <<>>
    /\ ACS_ENDPOINT = None
    /\ RestStart

\* the invocation ends: normally (e = None) or through the except clause
Finish(i, e) ==
    IF e = None
    THEN [i EXCEPT !.pc = "done", !.result = "ok"]
    ELSE [i EXCEPT !.pc = "done", !.raised = e,
                   !.result = Reraise(e).result, !.errlog = Reraise(e).errlog]

\* The host invokes fn(event) and the code runs up to its upsert_item
\* call: field extraction and logging, the chat dispatch, the
\* COSMOS_ENDPOINT test and get_cosmos_client() with the lazy database and
\* container proxies.  None of this touches shared state.  t is what
\* datetime.utcnow() returns and c the outcome of get_cosmos_client(), where
\* the code gets that far (they are fixed where it does not).
Deliver(fn, event) ==
    /\ started < MaxDeliveries
    /\ BagCardinality(inv) < MaxWorkers
    /\ \E t \in utcnow, c \in get_cosmos_client :
        LET hs == Called(fn, event)
            e == Raised(fn, event)
            i == [Idle EXCEPT !.fn = fn, !.event = event, !.called = hs]
        IN IF e # None
           THEN /\ t = 0 /\ c = None
                /\ outcome' = Finish(i, e)
                /\ inv' = inv
           ELSE IF Persister(hs) = None \/ ~Truthy(COSMOS_ENDPOINT)
           THEN /\ t = 0 /\ c = None
                /\ outcome' = Finish(i, None)
                /\ inv' = inv
           ELSE IF c # None
           THEN /\ t = 0
                /\ outcome' = Finish([i EXCEPT !.connects = 1], c)
                /\ inv' = inv
           ELSE /\ fn = "process_sms_received" \/ t = 0
                /\ inv' = inv (+) SetToBag({
                             [i EXCEPT !.pc = "upsert", !.connects = 1,
                                       !.t = IF fn = "process_sms_received"
                                             THEN t ELSE -1]})
                /\ outcome' = outcome
    /\ started' = started + 1
    /\ UNCHANGED <<COSMOS_ENDPOINT, store, last, committed, elsewhere>>

DeliverSms == \E event \in SmsEvents : Deliver("process_sms_received", event)

DeliverChat == \E event \in ChatEvents : Deliver("process_chat_event", event)

DeliverRecording ==
    \E event \in RecordingEvents : Deliver("process_recording_event", event)

\* one more commit of (handler, event)
Count(bag, x) == IF x \in DOMAIN bag THEN bag[x] ELSE 0

Counted(bag, x) ==
    [y \in DOMAIN bag \cup {x} |-> IF y = x THEN Count(bag, x) + 1 ELSE bag[y]]

\* history: the invocations in flight that are about to write another
\* payload to the slot an upsert of (h, event) has just been committed to
Races(j, h, event) ==
    /\ SlotOf(Persister(j.called), j.event) = SlotOf(h, event)
    /\ j.event # event

\* history: an upsert of (h, event) has just been committed while the
\* invocations of bag were in flight; those of them that address the same
\* slot with another payload are marked raced, those for an event of
\* another id are marked beside
Overtake(bag, h, event) ==
    LET mark(j) == [j EXCEPT !.raced = @ \/ Races(j, h, event),
                             !.beside = @ \/ j.event.id # event.id]
        marked == {mark(j) : j \in BagToSet(bag)}
    IN [k \in marked |->
          LET from == {j \in BagToSet(bag) : mark(j) = k}
              RECURSIVE Sum(_)
              Sum(S) == IF S = {} THEN 0
                        ELSE LET j == CHOOSE x \in S : TRUE
                             IN CopiesIn(j, bag) + Sum(S \ {j})
          IN Sum(from)]

\* the invocations in flight after upsert_item has raised in invocation i
\* (j is i with the attempt counted), were the handler to try again
RetryOnError(bag, i, j) == (bag (-) SetToBag({i})) (+) SetToBag({j})

\* the invocations in flight after upsert_item has raised in invocation i:
\* the except clause logs and re-raises, the invocation is over
LeaveOnError(bag, i, j) == bag (-) SetToBag({i})

\* container.upsert_item({...}) and the rest of the invocation i.  The chat
\* and recording handlers read the clock while building the document, the
\* SMS handler has read it before.  The store commits the upsert atomically
\* or the call raises.
Commit(i) ==
    /\ BagIn(i, inv)
    /\ \E now \in utcnow :
        LET h == Persister(i.called)
            t == IF i.t >= 0 THEN i.t ELSE now
            item == ItemOf(h, i.event, t)
            j == [i EXCEPT !.upserts = @ + 1]
        IN /\ i.t >= 0 => now = 0
           /\ \E e \in UpsertOutcomes(item) :
                IF e # None
                THEN /\ outcome' = Finish(j, e)
                     /\ inv' = LeaveOnError(inv, i, j)
                     /\ UNCHANGED <<store, last, committed>>
                ELSE /\ store' = upsert_item(store, ContainerOf(h), item)
                     /\ outcome' =
                          Finish([j EXCEPT !.written =
                                    @ \cup {Doc(ContainerOf(h), item)}], None)
                     /\ inv' = Overtake(inv (-) SetToBag({i}), h, i.event)
                     /\ last' = {x \in last : SlotOf(x.handler, x.event)
                                                # SlotOf(h, i.event)}
                                \cup {[handler |-> h, event |-> i.event, t |-> t,
                                       raced |-> i.raced, beside |-> i.beside]}
                     /\ committed' = Counted(committed, <<h, i.event>>)
    /\ UNCHANGED <<COSMOS_ENDPOINT, started, elsewhere>>

Next ==
    \/ DeliverSms
    \/ DeliverChat
    \/ DeliverRecording
    \/ \E i \in BagToSet(inv) : Commit(i)

Spec == Init /\ [][Next]_vars

-----------------------------------------------------------------------------
(* health_check: the timer-triggered health reporter *)

\* a text as the sequence of its parts: the empty text has none, and
\* concatenation is \o
Text(w) == <<w>>

\* an exception raised without a message, e.g. TimeoutError()
BareException == "Exception()"

\* str(e): the message of the exception; empty for a bare one
str(e) == IF e = BareException THEN <<>> ELSE Text(e)

\* the outcomes of get_cosmos_client() in the probe, None for a client
ProbeClient == get_cosmos_client \cup {BareException}

\* the outcomes of list(database.list_containers(max_item_count=1))
list_containers == {None, CosmosHttpError, BareException}

unknown == Text("unknown")
healthy == Text("healthy")
not_configured == Text("not configured")

\* the except clause of the probe, re-raising after the error is logged
CaptureAndReraise(e) ==
    [cosmos_db |-> Text("unhealthy: ") \o str(e), errlog |-> e, raised |-> e]

\* the except clause of the probe: the status takes the error text, the
\* error is logged and nothing is raised
Capture(e) ==
    [cosmos_db |-> Text("unhealthy: ") \o str(e), errlog |-> e, raised |-> None]

\* one run of health_check with utcnow() = t, get_cosmos_client() ending
\* as c and list_containers as l: what it leaves behind
health_check(endpoint, t, c, l) ==
    LET probed == IF c # None THEN Capture(c)
                  ELSE IF l # None THEN Capture(l)
                  ELSE [cosmos_db |-> healthy, errlog |-> None, raised |-> None]
        branch == IF Truthy(endpoint) THEN probed
                  ELSE [cosmos_db |-> not_configured, errlog |-> None,
                        raised |-> None]
    IN [health_status |-> [timestamp |-> t,
                           cosmos_db |-> branch.cosmos_db,
                           key_vault |-> unknown],
        probe |-> <<c, l>>,
        constructs |-> IF Truthy(endpoint) THEN 1 ELSE 0,
        lists |-> IF Truthy(endpoint) /\ c = None THEN 1 ELSE 0,
        errlog |-> branch.errlog,
        raised |-> branch.raised,
        logged |-> IF branch.raised = None THEN 1 ELSE 0]

\* the timer fires: health_check runs from its first line to its last
HealthCheck ==
    /\ Len(ticks) < MaxTicks
    /\ \E t \in utcnow, c \in ProbeClient, l \in list_containers :
        LET r == health_check(COSMOS_ENDPOINT, t, c, l)
        IN /\ Truthy(COSMOS_ENDPOINT) \/ c = None
           /\ (Truthy(COSMOS_ENDPOINT) /\ c = None) \/ l = None
           /\ ticks' = Append(ticks, r)
           /\ healthLog' = IF r.logged = 1
                           THEN Append(healthLog, r.health_status)
                           ELSE healthLog
    /\ UNCHANGED <<COSMOS_ENDPOINT, ingestVars, restVars, lazyVars>>

\* the function app with only its timer running; the endpoint variable may
\* be unset, set to the empty string or set
InitHealth ==
    /\ COSMOS_ENDPOINT \in {None, "", Endpoint}
    /\ store = {}
    /\ inv = EmptyBag
    /\ outcome = Idle
    /\ started = 0
    /\ last = {}
    /\ committed = [x \in {} |-> 0]
    /\ healthLog = <<>>
    /\ ticks = <<>>
    /\ ACS_ENDPOINT = None
    /\ RestStart

NextHealth == HealthCheck

SpecHealth == InitHealth /\ [][NextHealth]_vars

-----------------------------------------------------------------------------
(* app.py: the REST facade.  A request is served from its first line to its *)
(* response in one step; the lazily created handles outlive it.             *)

AcsEndpoint == "https://acs"

\* the values of a JSON request body: numbers, strings and lists
Num(n) == [num |-> n]
Str(w) == [str |-> w]
List(l) == [list |-> l]

\* the exceptions an endpoint body can end with
ValueError(m) == Exc("ValueError", 0, m)
KeyError(k) == Exc("KeyError", 0, k)
NotComparable == Exc(TypeError, 0, "'<' not supported between instances")
HttpResponseError(status_code) ==
    Exc("HttpResponseError", status_code, "upstream error")
ServiceRequestError == Exc("ServiceRequestError", 0, "connection failed")

\* how an operation of the communications platform SDK can end: it returns,
\* the platform answers with an error status, the error carries no status,
\* or the platform is not reached
SdkOutcomes ==
    {NoExc, HttpResponseError(429), HttpResponseError(0), ServiceRequestError}

\* the global handles as the request finds them
Globals ==
    [credential |-> _credential,
     identity_client |-> _identity_client,
     sms_client |-> _sms_client,
     obtained |-> <<>>]

\* g with one more call of the getter fn on record
Obtaining(g, fn) == [g EXCEPT !.obtained = Append(@, fn)]

get_credential(g) ==
    LET g1 == Obtaining(g, "get_credential")
    IN IF g1.credential = None
       THEN [g1 EXCEPT !.credential = "DefaultAzureCredential"]
       ELSE g1

get_identity_client(g) ==
    LET g1 == Obtaining(g, "get_identity_client")
    IN IF g1.identity_client # None THEN [g |-> g1, raised |-> NoExc]
       ELSE IF ~Truthy(ACS_ENDPOINT)
       THEN [g |-> g1,
             raised |->
                 ValueError("ACS_ENDPOINT environment variable not set")]
       ELSE [g |-> [get_credential(g1) EXCEPT
                      !.identity_client = "CommunicationIdentityClient"],
             raised |-> NoExc]

get_sms_client(g) ==
    LET g1 == Obtaining(g, "get_sms_client")
    IN IF g1.sms_client # None THEN [g |-> g1, raised |-> NoExc]
       ELSE IF ~Truthy(ACS_ENDPOINT)
       THEN [g |-> g1,
             raised |->
                 ValueError("ACS_ENDPOINT environment variable not set")]
       ELSE [g |-> [get_credential(g1) EXCEPT !.sms_client = "SmsClient"],
             raised |-> NoExc]

\* an endpoint body returns (body, status), having called the SDK
\* operations sdk, which all returned, and left the handles as g
Returned(g, status, body, sdk) ==
    [g |-> g, status |-> status, body |-> body, raised |-> NoExc, sdk |-> sdk,
     outcomes |-> [k \in 1..Len(sdk) |-> NoExc]]

\* an endpoint body raises e.  No body catches an exception, so when SDK
\* operations were called e is what the last of them raised and the ones
\* before it returned
Raising(g, e, sdk) ==
    [g |-> g, status |-> 0, body |-> EmptyDict, raised |-> e, sdk |-> sdk,
     outcomes |-> [k \in 1..Len(sdk) |-> IF k = Len(sdk) THEN e ELSE NoExc]]

\* the body of a response that has none
EmptyBody == [text |-> ""]

\* handle_errors without its last except clause
handle_errors_narrow(r) ==
    LET e == r.raised
    IN IF e = NoExc
       THEN [status |-> r.status, body |-> r.body, escaped |-> NoExc]
       ELSE IF e.class = "ValueError"
       THEN [status |-> 400,
             body |-> [error |-> e.message, type |-> "validation_error"],
             escaped |-> NoExc]
       ELSE IF e.class = "HttpResponseError"
       THEN [status |-> IF e.status_code # 0 THEN e.status_code ELSE 500,
             body |-> [error |-> e.message, type |-> "acs_error",
                       status_code |-> e.status_code],
             escaped |-> NoExc]
       ELSE [status |-> 0, body |-> EmptyDict, escaped |-> e]

\* the decorator: what the transport layer gets for the outcome r of the
\* endpoint body
handle_errors(r) ==
    LET e == r.raised
    IN IF e = NoExc
       THEN [status |-> r.status, body |-> r.body, escaped |-> NoExc]
       ELSE IF e.class = "ValueError"
       THEN [status |-> 400,
             body |-> [error |-> e.message, type |-> "validation_error"],
             escaped |-> NoExc]
       ELSE IF e.class = "HttpResponseError"
       THEN [status |-> IF e.status_code # 0 THEN e.status_code ELSE 500,
             body |-> [error |-> e.message, type |-> "acs_error",
                       status_code |-> e.status_code],
             escaped |-> NoExc]
       ELSE [status |-> 500,
             body |-> [error |-> "Internal server error",
                       type |-> "internal_error"],
             escaped |-> NoExc]

health(g) ==
    Returned(g, 200,
             [status |-> "healthy", service |-> "acs-api", version |-> "1.0.0"],
             <<>>)

readiness(g) ==
    LET c == get_identity_client(g)
    IN IF c.raised # NoExc THEN Raising(c.g, c.raised, <<>>)
       ELSE Returned(c.g, 200,
                     [status |-> "ready", acs_endpoint |-> ACS_ENDPOINT], <<>>)

\* create_user obtaining its client before it looks at the request
create_user_client_first(g, data, o) ==
    LET expires_hours == GetOr(data, "token_expires_hours", Num(24))
        c == get_identity_client(g)
    IN IF c.raised # NoExc THEN Raising(c.g, c.raised, <<>>)
       ELSE IF "num" \notin DOMAIN expires_hours
       THEN Raising(c.g, NotComparable, <<>>)
       ELSE IF expires_hours.num < 1 \/ expires_hours.num > 24
       THEN Returned(c.g, 400,
                     [error |-> "token_expires_hours must be between 1 and 24"],
                     <<>>)
       ELSE IF o # NoExc
       THEN Raising(c.g, o, <<"create_user_and_token">>)
       ELSE Returned(c.g, 201,
                     [user_id |-> "8:acs:new", token |-> "eyJ",
                      expires_on |-> expires_hours.num],
                     <<"create_user_and_token">>)

\* o: how client.create_user_and_token ends
create_user(g, data, o) ==
    LET expires_hours == GetOr(data, "token_expires_hours", Num(24))
    IN IF "num" \notin DOMAIN expires_hours
       THEN Raising(g, NotComparable, <<>>)
       ELSE IF expires_hours.num < 1 \/ expires_hours.num > 24
       THEN Returned(g, 400,
                     [error |-> "token_expires_hours must be between 1 and 24"],
                     <<>>)
       ELSE LET c == get_identity_client(g)
            IN IF c.raised # NoExc THEN Raising(c.g, c.raised, <<>>)
               ELSE IF o # NoExc
               THEN Raising(c.g, o, <<"create_user_and_token">>)
               ELSE Returned(c.g, 201,
                             [user_id |-> "8:acs:new", token |-> "eyJ",
                              expires_on |-> expires_hours.num],
                             <<"create_user_and_token">>)

\* o: how client.get_token ends
get_token(g, user_id, o) ==
    LET c == get_identity_client(g)
    IN IF c.raised # NoExc THEN Raising(c.g, c.raised, <<>>)
       ELSE IF o # NoExc THEN Raising(c.g, o, <<"get_token">>)
       ELSE Returned(c.g, 200, [token |-> "eyJ", expires_on |-> 24],
                     <<"get_token">>)

\* delete_user deleting the user whether or not revoke_tokens succeeded
delete_user_regardless(g, user_id, o1, o2) ==
    LET c == get_identity_client(g)
        both == <<"revoke_tokens", "delete_user">>
    IN IF c.raised # NoExc THEN Raising(c.g, c.raised, <<>>)
       ELSE IF o1 # NoExc
       THEN [g |-> c.g, status |-> 0, body |-> EmptyDict, raised |-> o1,
             sdk |-> both, outcomes |-> <<o1, o2>>]
       ELSE IF o2 # NoExc THEN Raising(c.g, o2, both)
       ELSE Returned(c.g, 204, EmptyBody, both)

\* o1: how client.revoke_tokens ends, o2: how client.delete_user ends
delete_user(g, user_id, o1, o2) ==
    LET c == get_identity_client(g)
    IN IF c.raised # NoExc THEN Raising(c.g, c.raised, <<>>)
       ELSE IF o1 # NoExc THEN Raising(c.g, o1, <<"revoke_tokens">>)
       ELSE IF o2 # NoExc
       THEN Raising(c.g, o2, <<"revoke_tokens", "delete_user">>)
       ELSE Returned(c.g, 204, EmptyBody, <<"revoke_tokens", "delete_user">>)

\* the first of the required fields the body lacks, None if it has all
FirstMissing(data) ==
    IF "from" \notin DOMAIN data THEN "from"
    ELSE IF "to" \notin DOMAIN data THEN "to"
    ELSE IF "message" \notin DOMAIN data THEN "message"
    ELSE None

MissingRequiredField(field) ==
    CASE field = "from" -> "Missing required field: from"
      [] field = "to" -> "Missing required field: to"
      [] field = "message" -> "Missing required field: message"

\* o: how client.send ends
send_sms(g, data, o) ==
    IF data = EmptyDict
    THEN Returned(g, 400, [error |-> "Request body required"], <<>>)
    ELSE IF FirstMissing(data) # None
    THEN Returned(g, 400,
                  [error |-> MissingRequiredField(FirstMissing(data))], <<>>)
    ELSE LET c == get_sms_client(g)
         IN IF c.raised # NoExc THEN Raising(c.g, c.raised, <<>>)
            ELSE IF o # NoExc THEN Raising(c.g, o, <<"send">>)
            ELSE Returned(c.g, 200,
                          [message_id |-> "m1", to |-> data.to,
                           successful |-> TRUE, http_status |-> 202],
                          <<"send">>)

\* o: how client.send ends
send_bulk_sms(g, data, o) ==
    IF data = EmptyDict
    THEN Returned(g, 400, [error |-> "Request body required"], <<>>)
    ELSE IF "to" \notin DOMAIN data \/ "list" \notin DOMAIN data.to
    THEN Returned(g, 400,
                  [error |-> "'to' must be a list of phone numbers"], <<>>)
    ELSE LET c == get_sms_client(g)
         IN IF c.raised # NoExc THEN Raising(c.g, c.raised, <<>>)
            ELSE IF "from" \notin DOMAIN data
            THEN Raising(c.g, KeyError("from"), <<>>)
            ELSE IF "message" \notin DOMAIN data
            THEN Raising(c.g, KeyError("message"), <<>>)
            ELSE IF o # NoExc THEN Raising(c.g, o, <<"send">>)
            ELSE Returned(c.g, 200, [results |-> data.to.list], <<"send">>)

\* the request bodies sent to create_user; EmptyDict also stands for no body
\* (request.get_json() or {})
CreateUserBodies ==
    {EmptyDict}
    \cup {[token_expires_hours |-> Num(n)] : n \in {0, 1, 24, 25}}
    \cup {[token_expires_hours |-> Str("abc")]}

SmsBody == [from |-> Str("+1"), to |-> Str("+2"), message |-> Str("hi")]

\* the request bodies sent to send_sms; EmptyDict also stands for no body
SendSmsBodies ==
    {EmptyDict, SmsBody}
    \cup {Without(SmsBody, {f}) : f \in {"from", "to", "message"}}

BulkBody ==
    [from |-> Str("+1"), to |-> List(<<"+2", "+3">>), message |-> Str("hi")]

\* the request bodies sent to send_bulk_sms
SendBulkSmsBodies ==
    {EmptyDict, BulkBody, [BulkBody EXCEPT !.to = Str("+2")]}
    \cup {Without(BulkBody, {f}) : f \in {"from", "to", "message"}}

UserIds == {"8:acs:u1"}

\* the transport layer serves one request: the endpoint body runs, under
\* handle_errors where the endpoint is wrapped, and the response is sent
Serve(endpoint, data, r, wrapped) ==
    LET h == IF wrapped THEN handle_errors(r)
             ELSE [status |-> r.status, body |-> r.body, escaped |-> r.raised]
    IN /\ served < MaxRequests
       /\ response' = [endpoint |-> endpoint, data |-> data,
                       status |-> h.status, body |-> h.body,
                       raised |-> r.raised, escaped |-> h.escaped,
                       sdk |-> r.sdk, outcomes |-> r.outcomes,
                       obtained |-> r.g.obtained]
       /\ _credential' = r.g.credential
       /\ _identity_client' = r.g.identity_client
       /\ _sms_client' = r.g.sms_client
       /\ served' = served + 1
       /\ UNCHANGED <<ACS_ENDPOINT, COSMOS_ENDPOINT, ingestVars, timerVars,
                       lazyVars>>

Health == Serve("health", EmptyDict, health(Globals), FALSE)

Readiness == Serve("readiness", EmptyDict, readiness(Globals), TRUE)

CreateUser ==
    \E data \in CreateUserBodies, o \in SdkOutcomes :
        Serve("create_user", data, create_user(Globals, data, o), TRUE)

GetToken ==
    \E user_id \in UserIds, o \in SdkOutcomes :
        Serve("get_token", EmptyDict, get_token(Globals, user_id, o), TRUE)

DeleteUser ==
    \E user_id \in UserIds, o1 \in SdkOutcomes, o2 \in SdkOutcomes :
        Serve("delete_user", EmptyDict,
              delete_user(Globals, user_id, o1, o2), TRUE)

SendSms ==
    \E data \in SendSmsBodies, o \in SdkOutcomes :
        Serve("send_sms", data, send_sms(Globals, data, o), TRUE)

SendBulkSms ==
    \E data \in SendBulkSmsBodies, o \in SdkOutcomes :
        Serve("send_bulk_sms", data, send_bulk_sms(Globals, data, o), TRUE)

\* the REST process alone; ACS_ENDPOINT may be unset, empty or set
InitRest ==
    /\ COSMOS_ENDPOINT = None
    /\ store = {}
    /\ inv = EmptyBag
    /\ outcome = Idle
    /\ started = 0
    /\ last = {}
    /\ committed = [x \in {} |-> 0]
    /\ healthLog = <<>>
    /\ ticks = <<>>
    /\ ACS_ENDPOINT \in {None, "", AcsEndpoint}
    /\ RestStart

NextRest ==
    \/ Health
    \/ Readiness
    \/ CreateUser
    \/ GetToken
    \/ DeleteUser
    \/ SendSms
    \/ SendBulkSms

SpecRest == InitRest /\ [][NextRest]_vars

-----------------------------------------------------------------------------
(* app.py: get_credential, get_identity_client and get_sms_client run by    *)
(* the threads of one process.  A getter is split where it reads or writes  *)
(* a global: the `is None` test, the assignment of the new instance and the *)
(* read of the global by the return statement.                              *)

Getters == {"get_credential", "get_identity_client", "get_sms_client"}

\* the global a getter creates and returns
HandleOf(fn) ==
    CASE fn = "get_credential" -> "_credential"
      [] fn = "get_identity_client" -> "_identity_client"
      [] fn = "get_sms_client" -> "_sms_client"

\* the class a handle is an instance of
ClassOf(kind) ==
    CASE kind = "_credential" -> "DefaultAzureCredential"
      [] kind = "_identity_client" -> "CommunicationIdentityClient"
      [] kind = "_sms_client" -> "SmsClient"

\* the value of a global
Global(kind) ==
    CASE kind = "_credential" -> _credential
      [] kind = "_identity_client" -> _identity_client
      [] kind = "_sms_client" -> _sms_client

\* the n-th instance made of a handle's class; the first one is the object
\* of the request model
Instance(kind, n) ==
    IF n = 1 THEN ClassOf(kind) ELSE ClassOf(kind) \o "#" \o ToString(n)

\* the thread's frame changes and nothing else of the getters' state does
Step(th, frame) ==
    /\ threads' = [threads EXCEPT ![th] = frame]
    /\ UNCHANGED <<calls, built, handed, _credential, _identity_client,
                   _sms_client>>

\* the call returns value to its caller
ReturnTo(th, value) ==
    /\ threads' = [threads EXCEPT ![th] = [@ EXCEPT !.pc = "done",
                                                    !.result = value]]
    /\ handed' = handed \cup {<<threads[th].fn, value>>}
    /\ UNCHANGED <<calls, built, _credential, _identity_client, _sms_client>>

\* the global kind := a new instance of its class
Construct(kind) ==
    LET new == Instance(kind, built[kind] + 1)
    IN /\ built' = [built EXCEPT ![kind] = @ + 1]
       /\ _credential' = IF kind = "_credential" THEN new ELSE _credential
       /\ _identity_client' =
              IF kind = "_identity_client" THEN new ELSE _identity_client
       /\ _sms_client' = IF kind = "_sms_client" THEN new ELSE _sms_client

\* what the getters never touch
NotLazy ==
    <<COSMOS_ENDPOINT, ACS_ENDPOINT, ingestVars, timerVars, response, served>>

\* a thread calls a getter
Call(th, fn) ==
    /\ threads[th].pc \in {"idle", "done"}
    /\ calls < MaxCalls
    /\ calls' = calls + 1
    /\ threads' = [threads EXCEPT ![th] =
                     [Outside EXCEPT !.fn = fn,
                                     !.pc = IF fn = "get_credential"
                                            THEN "cred_test" ELSE "test"]]
    /\ UNCHANGED <<built, handed, _credential, _identity_client, _sms_client>>
    /\ UNCHANGED NotLazy

\* get_identity_client, get_sms_client: `if _x is None:` and, inside it,
\* `if not ACS_ENDPOINT: raise ValueError(...)`
Test(th) ==
    LET f == threads[th]
    IN /\ f.pc = "test"
       /\ IF Global(HandleOf(f.fn)) # None
          THEN Step(th, [f EXCEPT !.pc = "return"])
          ELSE IF ~Truthy(ACS_ENDPOINT)
          THEN Step(th, [f EXCEPT !.pc = "done", !.result = "ValueError"])
          ELSE Step(th, [f EXCEPT !.pc = "cred_test"])
       /\ UNCHANGED NotLazy

\* get_credential: `if _credential is None:`
CredTest(th) ==
    LET f == threads[th]
    IN /\ f.pc = "cred_test"
       /\ IF _credential = None
          THEN Step(th, [f EXCEPT !.pc = "cred_assign"])
          ELSE Step(th, [f EXCEPT !.pc = "cred_return"])
       /\ UNCHANGED NotLazy

\* get_credential: `_credential = DefaultAzureCredential()`
CredAssign(th) ==
    LET f == threads[th]
    IN /\ f.pc = "cred_assign"
       /\ Construct("_credential")
       /\ threads' = [threads EXCEPT ![th] = [f EXCEPT !.pc = "cred_return"]]
       /\ UNCHANGED <<calls, handed>>
       /\ UNCHANGED NotLazy

\* get_credential: `return _credential`, to the caller of the getter or to
\* the client getter that called it for its constructor argument
CredReturn(th) ==
    LET f == threads[th]
    IN /\ f.pc = "cred_return"
       /\ IF f.fn = "get_credential"
          THEN ReturnTo(th, _credential)
          ELSE Step(th, [f EXCEPT !.pc = "assign",
                                  !.credential = _credential])
       /\ UNCHANGED NotLazy

\* get_identity_client, get_sms_client: `_x = Client(ACS_ENDPOINT, credential)`
Assign(th) ==
    LET f == threads[th]
    IN /\ f.pc = "assign"
       /\ Construct(HandleOf(f.fn))
       /\ threads' = [threads EXCEPT ![th] = [f EXCEPT !.pc = "return"]]
       /\ UNCHANGED <<calls, handed>>
       /\ UNCHANGED NotLazy

\* get_identity_client, get_sms_client: `return _x`
Return(th) ==
    LET f == threads[th]
    IN /\ f.pc = "return"
       /\ ReturnTo(th, Global(HandleOf(f.fn)))
       /\ UNCHANGED NotLazy

\* the REST process with its threads in the getters; ACS_ENDPOINT may be
\* unset, empty or set
InitLazy ==
    /\ COSMOS_ENDPOINT = None
    /\ store = {}
    /\ inv = EmptyBag
    /\ outcome = Idle
    /\ started = 0
    /\ last = {}
    /\ committed = [x \in {} |-> 0]
    /\ healthLog = <<>>
    /\ ticks = <<>>
    /\ ACS_ENDPOINT \in {None, "", AcsEndpoint}
    /\ RestStart

NextLazy ==
    \E th \in Threads :
        \/ \E fn \in Getters : Call(th, fn)
        \/ Test(th)
        \/ CredTest(th)
        \/ CredAssign(th)
        \/ CredReturn(th)
        \/ Assign(th)
        \/ Return(th)

SpecLazy == InitLazy /\ [][NextLazy]_vars

-----------------------------------------------------------------------------
(* Properties *)

\* the store slot a document occupies
DocSlot(d) == <<d.container, PartitionKeyOf(d.container, d.item), d.item.id>>

\* the documents held in a slot
DocsIn(slot) == {d \in store : DocSlot(d) = slot}

\* the finished invocation, when there is one
Finished == outcome.pc = "done"

\* C1: an event that a persisting handler has committed two or more times
\* (same handler, same id, same data), in whatever order with other
\* deliveries, has exactly one record in its (id, partition key) slot.
C1_IdempotentRedelivery ==
    \A x \in DOMAIN committed :
        committed[x] >= 2 => Cardinality(DocsIn(SlotOf(x[1], x[2]))) = 1

\* an event has been committed twice and its slot is held by one record
C1_Witness ==
    \E x \in DOMAIN committed :
        /\ committed[x] >= 2
        /\ Cardinality(DocsIn(SlotOf(x[1], x[2]))) = 1

C3_RecordKeysFromEvent ==
    /\ \A d \in store : \E x \in last :
         /\ d.container = ContainerOf(x.handler)
         /\ d.item.id = x.event.id
         /\ PartitionKeyOf(d.container, d.item) = Get(x.event.data, KeyField(x.handler))
    /\ Cardinality(store) = Cardinality(last)

\* the store holds a chat message and an SMS or recording record, none of
\* them keyed by its event id
C3_Witness ==
    /\ \E d \in store : d.container = ChatHistory
    /\ \E d \in store : d.container = CallLogs
    /\ \A d \in store : PartitionKeyOf(d.container, d.item) # d.item.id

\* the handler a chat event type selects
ChatHandlerFor(event_type) ==
    CASE event_type = ChatMessageReceived -> "process_chat_message"
      [] event_type = ChatThreadCreated -> "process_thread_created"
      [] event_type = ChatParticipantAdded -> "process_participant_added"

\* the members of data the handlers run for an event read with .get()
FieldsRead(h) ==
    CASE h = "process_sms_received" ->
            {"messageId", "from", "to", "message", "receivedTimestamp"}
      [] h = "process_chat_message" ->
            {"threadId", "senderId", "messageBody", "transactionId"}
      [] h = "process_thread_created" -> {"threadId", "createdBy"}
      [] h = "process_participant_added" -> {"threadId", "participantsAdded"}
      [] h = "process_recording_event" -> {"recordingStorageInfo", "serverCallId"}

LacksField(i) ==
    \E n \in 1..Len(i.called) : ~(FieldsRead(i.called[n]) \subseteq DOMAIN i.event.data)

\* C4 as stated: an invocation of any entry point for an event that carries
\* a type other than the known kinds completes without error and writes
\* nothing.
C4_UnknownTypeNoWrite ==
    (Finished /\ outcome.event.event_type \notin KnownTypes \cup {None})
        => (outcome.result = "ok" /\ outcome.upserts = 0 /\ outcome.written = {})

\* C5 as stated: a persisting handler returns successfully only if it has
\* written the event's record, also when the store endpoint is not set.
C5_SuccessOnlyIfWritten ==
    (Finished /\ Persister(outcome.called) # None /\ outcome.result = "ok")
        => outcome.written # {}

\* C5 amended: with the store endpoint configured a persisting handler
\* returns successfully only if it has written the event's record; with the
\* endpoint not configured it skips the store, writes nothing and returns
\* successfully unless field extraction raised.
C5_SuccessOnlyIfWrittenOrUnconfigured ==
    (Finished /\ Persister(outcome.called) # None)
        => LET h == Persister(outcome.called) IN
           /\ (outcome.result = "ok" /\ COSMOS_ENDPOINT # None)
                => /\ outcome.upserts = 1
                   /\ \E d \in outcome.written :
                        DocSlot(d) = SlotOf(h, outcome.event)
           /\ COSMOS_ENDPOINT = None
                => /\ outcome.connects = 0 /\ outcome.upserts = 0
                   /\ outcome.written = {}
                   /\ outcome.result = "ok" <=> Raised(outcome.fn, outcome.event) = None
           /\ outcome.written = {} /\ COSMOS_ENDPOINT # None => outcome.result # "ok"

\* with the endpoint configured a persisting handler has returned
\* successfully, having written its record
C5_Witness ==
    /\ Finished /\ Persister(outcome.called) # None
    /\ COSMOS_ENDPOINT # None
    /\ outcome.result = "ok"
    /\ outcome.written = {Doc(ContainerOf(Persister(outcome.called)),
                              ItemOf(Persister(outcome.called), outcome.event, 0))}

\* C6: when client construction, upsert_item or field extraction raises
\* inside an event handler, the invocation ends with that same error, which
\* has been logged; it never ends in a successful return.
C6_ErrorsPropagate ==
    Finished =>
        /\ outcome.raised # None
             => outcome.result = outcome.raised /\ outcome.errlog = outcome.raised
        /\ Raised(outcome.fn, outcome.event) # None
             => outcome.result = Raised(outcome.fn, outcome.event)
        /\ outcome.connects = 1 /\ outcome.upserts = 0
             => outcome.result = CredentialError
        /\ outcome.upserts = 1 /\ outcome.written = {}
             => outcome.result = CosmosHttpError

\* the chat entry point ended with the error upsert_item raised
C6_Witness ==
    /\ Finished /\ outcome.fn = "process_chat_event"
    /\ outcome.raised = CosmosHttpError
    /\ outcome.result = CosmosHttpError

\* C7 as stated: a handler given data that lacks a member it reads treats
\* the member as null and does not raise on it.
C7_MissingFieldNoRaise ==
    (Finished /\ LacksField(outcome)) => outcome.raised # TypeError

\* C8 as stated: an envelope without id or event_type is rejected with
\* MalformedEnvelope before any handler runs and before any store write.
C8_MalformedEnvelopeRejected ==
    (Finished /\ (outcome.event.id = None \/ outcome.event.event_type = None))
        => /\ outcome.result = "MalformedEnvelope"
           /\ outcome.called = <<>>
           /\ outcome.upserts = 0

\* C9: for a known chat event type process_chat_event runs exactly one
\* handler, the one its type selects, and a record that handler stores has
\* the id of the envelope.
C9_ExactlyOneHandler ==
    \A i \in BagToSet(inv) \cup {outcome} :
        (i.fn = "process_chat_event"
         /\ i.event.event_type \in {ChatMessageReceived, ChatThreadCreated,
                                    ChatParticipantAdded})
            => /\ i.called = <<ChatHandlerFor(i.event.event_type)>>
               /\ \A d \in i.written : d.item.id = i.event.id

\* a chat message event has run its one handler, which stored a record
C9_Witness ==
    /\ Finished /\ outcome.fn = "process_chat_event"
    /\ outcome.called = <<"process_chat_message">>
    /\ outcome.written # {}

\* C10: each slot holds exactly the record of the upsert committed to it
\* last - all of its members from that one delivery, and no second record -
\* whatever the interleaving of the deliveries.
C10_LastWriteWins ==
    \A x \in last :
        DocsIn(SlotOf(x.handler, x.event))
            = {Doc(ContainerOf(x.handler), ItemOf(x.handler, x.event, x.t))}

\* two deliveries to one slot with different payloads were in flight
\* together, both have committed and the slot holds the later one
C10_Witness ==
    \E x \in last :
        /\ x.raced
        /\ DocsIn(SlotOf(x.handler, x.event))
            = {Doc(ContainerOf(x.handler), ItemOf(x.handler, x.event, x.t))}

\* C11: an upsert changes only the record of its own event: every record
\* of another event id is in the store afterwards exactly as it was before,
\* also when the two events were in flight together and their handlers
\* share the call-logs container.
C11_NoCrossContamination ==
    [][\A d \in store :
          d \in store'
          \/ \E n \in store' \ store :
               /\ Cardinality(store' \ store) = 1
               /\ n.item.id = d.item.id
               /\ DocSlot(n) = DocSlot(d)]_vars

\* an SMS and a recording event of different ids were in flight together,
\* both have committed to call-logs and both records are there
C11_Witness ==
    \E x, y \in last :
        /\ x.handler = "process_sms_received"
        /\ y.handler = "process_recording_event"
        /\ x.event.id # y.event.id
        /\ x.beside \/ y.beside
        /\ Doc(CallLogs, ItemOf(x.handler, x.event, x.t)) \in store
        /\ Doc(CallLogs, ItemOf(y.handler, y.event, y.t)) \in store

\* C12 as stated: a stored record is never removed, and the record of a slot
\* is only ever rewritten by the handler that wrote it: every commit still
\* has a record in its slot, and all commits to a slot are of one handler.
C12_OnlyOwnHandlerRewrites ==
    /\ \A c \in DOMAIN committed : DocsIn(SlotOf(c[1], c[2])) # {}
    /\ \A x \in last, c \in DOMAIN committed :
         SlotOf(c[1], c[2]) = SlotOf(x.handler, x.event) => c[1] = x.handler

\* C13: a ChatThreadCreated or ChatParticipantAdded event never reaches the
\* store, with the endpoint configured or not: its invocation constructs no
\* client, calls no upsert and writes nothing.
C13_LogOnlyHandlers ==
    /\ \A i \in BagToSet(inv) \cup {outcome} :
         i.event.event_type \in {ChatThreadCreated, ChatParticipantAdded}
         /\ i.fn = "process_chat_event"
            => /\ i.pc # "upsert"
               /\ i.connects = 0 /\ i.upserts = 0 /\ i.written = {}
    /\ \A x \in last :
         x.handler \notin {"process_thread_created", "process_participant_added"}

\* with the endpoint configured a thread-created or participant-added event
\* has been processed successfully and nothing was written
C13_Witness ==
    /\ Finished /\ outcome.fn = "process_chat_event"
    /\ outcome.event.event_type \in {ChatThreadCreated, ChatParticipantAdded}
    /\ COSMOS_ENDPOINT = Endpoint
    /\ outcome.result = "ok"
    /\ store = {}

\* the record the SMS handler committed last to a slot
SmsRecords ==
    {<<x, d>> \in last \X store :
        /\ x.handler = "process_sms_received"
        /\ DocSlot(d) = SlotOf(x.handler, x.event)}

InputChunks(data) ==
    IF "recordingStorageInfo" \in DOMAIN data
    THEN IF "recordingChunks" \in DOMAIN data.recordingStorageInfo
         THEN data.recordingStorageInfo.recordingChunks
         ELSE <<>>
    ELSE <<>>

\* the record the recording handler committed last to a slot
RecordingRecords ==
    {<<x, d>> \in last \X store :
        /\ x.handler = "process_recording_event"
        /\ DocSlot(d) = SlotOf(x.handler, x.event)}

\* C15: the record stored for a recording event has a chunks member holding
\* one entry per input chunk, in order; for an event without chunks it is the
\* empty list, and the record is stored all the same.
C15_ChunksKept ==
    /\ \A r \in RecordingRecords :
         LET cs == InputChunks(r[1].event.data) IN
         /\ "chunks" \in DOMAIN r[2].item
         /\ Len(r[2].item.chunks) = Len(cs)
         /\ \A n \in 1..Len(cs) : r[2].item.chunks[n] = cs[n]
    /\ \A x \in last :
         x.handler = "process_recording_event"
            => \E d \in store : <<x, d>> \in RecordingRecords

\* a recording event with an empty recordingChunks list has its record
\* stored, with chunks the empty list
C15_Witness ==
    \E r \in RecordingRecords :
        /\ "recordingStorageInfo" \in DOMAIN r[1].event.data
        /\ "recordingChunks" \in DOMAIN r[1].event.data.recordingStorageInfo
        /\ r[1].event.data.recordingStorageInfo.recordingChunks = <<>>
        /\ r[2].item.chunks = <<>>

\* C16: health_check never raises: whatever the probe does (client
\* construction fails, list_containers fails, both succeed, endpoint not
\* configured) the run ends normally with exactly one snapshot logged.
C16_HealthNeverRaises ==
    /\ Len(healthLog) = Len(ticks)
    /\ \A k \in 1..Len(ticks) :
         /\ ticks[k].raised = None
         /\ ticks[k].logged = 1
         /\ healthLog[k] = ticks[k].health_status

\* a run whose client construction failed and a run whose list_containers
\* failed have both ended with their snapshot logged
C16_Witness ==
    /\ \E k \in 1..Len(ticks) : ticks[k].probe[1] # None
    /\ \E k \in 1..Len(ticks) : ticks[k].probe[2] # None
    /\ Len(healthLog) = 2

\* C17: with the store endpoint unconfigured (unset or empty) health_check
\* reports the status as exactly "not configured" and calls the store client
\* constructor zero times in that run.
C17_UnconfiguredNoConnection ==
    COSMOS_ENDPOINT \in {None, ""} =>
        \A k \in 1..Len(ticks) :
            /\ ticks[k].health_status.cosmos_db = Text("not configured")
            /\ ticks[k].constructs = 0
            /\ ticks[k].lists = 0

\* health_check has run with the endpoint set to the empty string and has
\* logged its snapshot
C17_Witness ==
    /\ COSMOS_ENDPOINT = ""
    /\ Len(ticks) >= 1
    /\ healthLog[1].cosmos_db = Text("not configured")

\* C18 as stated: with the endpoint configured the status is healthy exactly
\* when client construction and list_containers both succeeded, and otherwise
\* it is unhealthy followed by a non-empty reason, also for an error whose
\* text is empty.
C18_UnhealthyHasReason ==
    COSMOS_ENDPOINT = Endpoint =>
        \A k \in 1..Len(ticks) :
            LET status == ticks[k].health_status.cosmos_db
                ok == ticks[k].probe = <<None, None>>
            IN /\ status = Text("healthy") <=> ok
               /\ ~ok => /\ Head(status) = "unhealthy: "
                         /\ Tail(status) # <<>>

\* the endpoints of app.py that are wrapped by handle_errors
WrappedEndpoints ==
    {"readiness", "create_user", "get_token", "delete_user", "send_sms",
     "send_bulk_sms"}

\* C19: every request to an endpoint wrapped by handle_errors gets an HTTP
\* response: whatever the endpoint body raised (ValueError,
\* HttpResponseError, KeyError, TypeError, any other exception), nothing
\* escapes the decorator.
C19_NoExceptionEscapes ==
    response.endpoint \in WrappedEndpoints =>
        /\ response.escaped = NoExc
        /\ response.status \in 200..599
        /\ response.raised # NoExc =>
             /\ response.status >= 400
             /\ "error" \in DOMAIN response.body

\* an endpoint body has raised a KeyError and the client got a response
C19_Witness ==
    /\ response.endpoint = "send_bulk_sms"
    /\ response.raised.class = "KeyError"
    /\ response.escaped = NoExc
    /\ response.status = 500

\* a request the client got wrong: a required field of an SMS request is
\* missing, the body is empty, the recipients are not a list, or
\* token_expires_hours is not a number from 1 to 24
Malformed(endpoint, data) ==
    \/ /\ endpoint \in {"send_sms", "send_bulk_sms"}
       /\ \E f \in {"from", "to", "message"} : f \notin DOMAIN data
    \/ /\ endpoint = "send_bulk_sms"
       /\ "to" \in DOMAIN data
       /\ "list" \notin DOMAIN data.to
    \/ /\ endpoint = "create_user"
       /\ "token_expires_hours" \in DOMAIN data
       /\ \/ "num" \notin DOMAIN data.token_expires_hours
          \/ data.token_expires_hours.num \notin 1..24

\* C20 as stated: the status of a failed request is 400 for a malformed
\* request, the upstream's status code for an error of the communications
\* platform, and 500 for anything else, an unset ACS_ENDPOINT included.
C20_StatusReflectsFailureClass ==
    response.status >= 400 =>
        IF Malformed(response.endpoint, response.data)
        THEN response.status = 400
        ELSE IF /\ response.raised.class = "HttpResponseError"
                /\ response.raised.status_code # 0
        THEN response.status = response.raised.status_code
        ELSE response.status = 500

\* C21 as stated: every response with a status of 400 or more, from any
\* endpoint and also for the rejections the endpoint bodies return
\* themselves, has a JSON body with an error member and a type member.
C21_ErrorBodyHasErrorAndType ==
    response.status >= 400 =>
        {"error", "type"} \subseteq DOMAIN response.body

\* C22: an invocation attempts the store write at most once: it constructs
\* the client at most once and calls upsert_item at most once, and after a
\* failure of either it is over, so that no invocation with an attempt behind
\* it is still in flight.
C22_AtMostOneAttempt ==
    /\ \A i \in BagToSet(inv) \cup {outcome} :
         /\ i.connects <= 1
         /\ i.upserts <= 1
    /\ \A i \in BagToSet(inv) : i.pc = "upsert" /\ i.upserts = 0
    /\ outcome.raised # None => outcome.pc = "done"

\* upsert_item has failed in an invocation after its one attempt, nothing
\* was written and no invocation is left in flight
C22_Witness ==
    /\ Finished
    /\ outcome.raised = CosmosHttpError
    /\ outcome.connects = 1
    /\ outcome.upserts = 1
    /\ outcome.written = {}
    /\ BagCardinality(inv) = 0
    /\ started = 1

\* C23: in the delete_user endpoint the tokens are revoked before the user
\* is deleted: client.delete_user is called only after client.revoke_tokens
\* has returned, and when revoke_tokens fails the user is not deleted and
\* the client gets an error response.
C23_RevokeBeforeDelete ==
    response.endpoint = "delete_user" =>
        /\ \A k \in 1..Len(response.sdk) :
             response.sdk[k] = "delete_user" =>
                 /\ k > 1
                 /\ response.sdk[k - 1] = "revoke_tokens"
                 /\ response.outcomes[k - 1] = NoExc
        /\ \A k \in 1..Len(response.sdk) :
             (response.sdk[k] = "revoke_tokens"
              /\ response.outcomes[k] # NoExc) =>
                 /\ \A n \in 1..Len(response.sdk) :
                      response.sdk[n] # "delete_user"
                 /\ response.status >= 400
                 /\ "error" \in DOMAIN response.body
        /\ response.status = 204 =>
             response.sdk = <<"revoke_tokens", "delete_user">>

\* revoke_tokens has failed with the platform's 429: the user was not
\* deleted and the client got 429
C23_Witness ==
    /\ response.endpoint = "delete_user"
    /\ response.sdk = <<"revoke_tokens">>
    /\ response.outcomes = <<HttpResponseError(429)>>
    /\ response.status = 429

\* the requests that request validation rejects: create_user with a
\* token_expires_hours outside 1..24, send_sms with an empty body or without
\* from, to or message, send_bulk_sms with an empty body or with a to that is
\* missing or not a list
Rejected(endpoint, data) ==
    \/ /\ endpoint = "create_user"
       /\ "token_expires_hours" \in DOMAIN data
       /\ "num" \in DOMAIN data.token_expires_hours
       /\ data.token_expires_hours.num \notin 1..24
    \/ /\ endpoint = "send_sms"
       /\ \E f \in {"from", "to", "message"} : f \notin DOMAIN data
    \/ /\ endpoint = "send_bulk_sms"
       /\ \/ data = EmptyDict
          \/ "to" \notin DOMAIN data
          \/ "list" \notin DOMAIN data.to

\* C24: a request rejected by request validation is answered 400 before any
\* client is obtained and before any SDK operation is invoked: no getter of a
\* handle was called, no handle was created and the platform was not called.
C24_RejectedBeforePlatform ==
    Rejected(response.endpoint, response.data) =>
        /\ response.status = 400
        /\ response.raised = NoExc
        /\ response.obtained = <<>>
        /\ response.sdk = <<>>

\* with the endpoint configured and no handle created yet a send_bulk_sms
\* request whose to is not a list was answered 400, and there is still no
\* handle
C24_Witness ==
    /\ ACS_ENDPOINT = AcsEndpoint
    /\ response.endpoint = "send_bulk_sms"
    /\ response.data = [BulkBody EXCEPT !.to = Str("+2")]
    /\ response.status = 400
    /\ _sms_client = None
    /\ _credential = None

\* C25 as stated: under every interleaving of calls of get_credential,
\* get_identity_client and get_sms_client in one process each handle is
\* constructed at most once and every caller of a getter receives the same
\* instance; a call that fails because ACS_ENDPOINT is unset leaves the
\* handle unset.
C25_LazySingletons ==
    /\ \A kind \in Handles : built[kind] <= 1
    /\ \A x, y \in handed : x[1] = y[1] => x[2] = y[2]
    /\ \A th \in Threads :
         threads[th].result = "ValueError" =>
             Global(HandleOf(threads[th].fn)) = None

====
